---- MODULE Spec2Model ----
(***************************************************************************)
(* The log-backed materialized-view store of pubsub-function:              *)
(* db.PulsarHandler (src/src/db/pulsardb.go) over the document model of    *)
(* package model (src/unnamed/part_000).                                   *)
(*                                                                         *)
(* The handler keeps an in-memory map `topics` (the cache), appends every  *)
(* write to a Pulsar topic (the log) through one producer, and runs a      *)
(* supervised goroutine dbListener that reads the log from the earliest    *)
(* message and folds each decoded document into the cache.  Request tasks  *)
(* (the HTTP handlers) call Create / Update / Delete / DeleteByKey /       *)
(* GetByKey / GetByTopic / Load concurrently with the listener.            *)
(*                                                                         *)
(* Granularity: the CRUD methods take no lock, so each access to the map   *)
(* and each producer.Send is one step of the calling task and other        *)
(* goroutines may run between two steps.  Time stamps (CreatedAt,          *)
(* UpdatedAt, DeletedAt) and the descriptive fields that no operation      *)
(* reads are left out of the documents.  A fatal runtime error of the      *)
(* process (Go may abort on an unsynchronised map access) ends the program *)
(* and is not a state of the store; it is not modelled.                    *)
(***************************************************************************)
EXTENDS Integers, Sequences, FiniteSets, TLC

(***************************************************************************)
(* Bounds of the model.                                                    *)
(***************************************************************************)
NumTasks == 2       \* concurrent request tasks
MaxCalls == 2       \* calls issued over all tasks
MaxFail == 1        \* reader failures (CreateReader or reader.Next errors)
MaxForeign == 1     \* records appended to the log by other writers
MaxLog == 3         \* records on the log when a replica starts on it

Tasks == 1..NumTasks

(***************************************************************************)
(* model.Status: Deactivated Status = iota, Activated, Suspended, Deleted. *)
(***************************************************************************)
Deactivated == 0
Activated == 1
Suspended == 2
Deleted == 3

\* error strings of package db, and the error of a failed producer.Send
DocAlreadyExisted == "DocAlreadyExisted"
DocNotFound == "DocNotFound"
SendError == "SendError"
NoError == "nil"

(***************************************************************************)
(* Inputs of the callers.                                                  *)
(***************************************************************************)
Tenants == {"t1"}
Names == {"fn1"}
InStatus == {Deactivated, Activated, Deleted}

\* sha1 followed by hex.EncodeToString, taken as collision free on its
\* input bytes: the digest of a byte string is a token that names exactly
\* that byte string (and is never the empty string).
Sha1Hex(bytes) == "#" \o bytes

\* model.GenKey: the digest of tenant + functionName
GenKey(tenant, functionName) == Sha1Hex(tenant \o functionName)

\* model.GetKeyFromNames
GetKeyFromNames(tenant, functionName) == GenKey(tenant, functionName)

\* db.getKey: the key of a document, derived from its tenant and name
getKey(functionCfg) == GetKeyFromNames(functionCfg.Tenant, functionCfg.Name)

Keys == {GetKeyFromNames(t, n) : t \in Tenants, n \in Names}

\* the ID a caller's document carries: none, or the derived key
InIDs(t, n) == {"", GetKeyFromNames(t, n)}

\* model.FunctionConfig, the fields the store reads or writes
NewDoc(name, id, tenant, status) ==
    [Name |-> name, ID |-> id, Tenant |-> tenant, FunctionStatus |-> status]

\* the zero value &model.FunctionConfig{}
ZeroDoc == NewDoc("", "", "", Deactivated)

InDocs == {NewDoc(n, id, t, s) : n \in Names, id \in {""} \cup Keys,
                                  t \in Tenants, s \in InStatus}

\* documents handed to Create and Update
CallerDocs == {d \in InDocs : d.ID \in InIDs(d.Tenant, d.Name)}

\* keys handed to DeleteByKey and GetByKey
CallerKeys == Keys \cup {""}

(***************************************************************************)
(* The payload of a log record: json.Marshal of a FunctionConfig gives an  *)
(* object with the json field names; json.Unmarshal fails on bytes that    *)
(* are not such an object.                                                 *)
(***************************************************************************)
Marshal(doc) ==
    [ok |-> TRUE, name |-> doc.Name, id |-> doc.ID, tenant |-> doc.Tenant,
     functionStatus |-> doc.FunctionStatus]

Malformed ==
    [ok |-> FALSE, name |-> "", id |-> "", tenant |-> "", functionStatus |-> 0]

UnmarshalOk(payload) == payload.ok

Unmarshal(payload) ==
    NewDoc(payload.name, payload.id, payload.tenant, payload.functionStatus)

\* pulsar.ProducerMessage{Payload, Key}
Message(key, payload) == [Key |-> key, Payload |-> payload]

\* what another writer of the same topic may append: an undecodable
\* payload, or a well-formed record of another instance of this store
ForeignMessages ==
    {Message("", Malformed)} \cup
    {Message(GetKeyFromNames(t, n),
             Marshal(NewDoc(n, GetKeyFromNames(t, n), t, s))) :
        t \in Tenants, n \in Names, s \in {Suspended}}

VARIABLES
    topics,     \* s.topics: the cache, a map from key to FunctionConfig
    log,        \* the messages of the Pulsar topic s.TopicName, in order
    locks,      \* Lock() calls on s.topicsLock not yet undone by Unlock()
    listener,   \* the dbListener goroutine: pc, reader position, document
    task,       \* the request tasks: the call in progress or last returned
    lastWrite,  \* per derived key, the last write this process completed
    ncalls,     \* calls issued so far
    nfail,      \* reader failures so far
    nforeign,   \* foreign records so far
    started,    \* dbListener goroutines started so far
    pure        \* the last pure function of package model applied: its inputs and its result

vars == <<topics, log, locks, listener, task, lastWrite, ncalls, nfail, nforeign, started, pure>>

(***************************************************************************)
(* The cache as a Go map.                                                  *)
(***************************************************************************)
EmptyMap == [k \in {} |-> ZeroDoc]

\* _, ok := m[key]
Has(m, key) == key \in DOMAIN m

\* m[key] = doc
MapPut(m, key, doc) == [k \in DOMAIN m \cup {key} |-> IF k = key THEN doc ELSE m[k]]

\* delete(m, key)
MapDelete(m, key) == [k \in DOMAIN m \ {key} |-> m[k]]

\* v := m[key]: the zero value when the key is absent
MapGet(m, key) == IF key \in DOMAIN m THEN m[key] ELSE ZeroDoc

(***************************************************************************)
(* Request tasks.  A task is idle (its last call has returned and its      *)
(* results are in err, rkey, rdocs) or inside a call at one of the steps   *)
(*   create   Create, before the lookup of line 178                        *)
(*   update   Update, before the lookup of line 245                        *)
(*   send     updateCacheAndPulsar, before producer.Send                   *)
(*   install  updateCacheAndPulsar, after Send, before line 208            *)
(*   delete   DeleteByKey, before the lookup of line 270                   *)
(*   dcopy    DeleteByKey, before the read of line 274                     *)
(*   dsend    DeleteByKey, before producer.Send                            *)
(*   evict    DeleteByKey, after Send, before line 292                     *)
(*   get      GetByKey                                                     *)
(*   load     Load                                                         *)
(***************************************************************************)
IdleTask ==
    [pc |-> "idle", op |-> "none", doc |-> ZeroDoc, key |-> "", v |-> ZeroDoc,
     err |-> NoError, rkey |-> "", rdocs |-> <<>>]

\* a call enters a method: its arguments are bound, nothing has run yet
Enter(op, pc, doc, key) ==
    [pc |-> pc, op |-> op, doc |-> doc, key |-> key, v |-> ZeroDoc,
     err |-> NoError, rkey |-> "", rdocs |-> <<>>]

\* return rkey, err (and the documents a read returns); the arguments and
\* locals of the call are gone
Return(tk, rkey, err, rdocs) ==
    [IdleTask EXCEPT !.op = tk.op, !.rkey = rkey, !.err = err, !.rdocs = rdocs]

NoWrite == [op |-> "none", doc |-> ZeroDoc]

NoCall == [op |-> "none", in |-> <<>>, out |-> <<>>]

Init ==
    /\ topics = EmptyMap
    /\ log = <<>>
    /\ locks = 0
    /\ listener = [pc |-> "open", pos |-> 0, doc |-> ZeroDoc]
    /\ task = [t \in Tasks |-> IdleTask]
    /\ lastWrite = [k \in CallerKeys |-> NoWrite]
    /\ ncalls = 0
    /\ nfail = 0
    /\ nforeign = 0
    /\ started = 1
    /\ pure = NoCall

OtherVars == <<locks, listener, nfail, nforeign, started, pure>>

(***************************************************************************)
(* Calls.  Delete and GetByTopic derive the key and go on as DeleteByKey   *)
(* and GetByKey.                                                           *)
(***************************************************************************)
Invoke(t, call) ==
    /\ task[t].pc = "idle"
    /\ ncalls < MaxCalls
    /\ task' = [task EXCEPT ![t] = call]
    /\ ncalls' = ncalls + 1
    /\ UNCHANGED <<topics, log, lastWrite, OtherVars>>

CallCreate(t) == \E d \in CallerDocs : Invoke(t, Enter("Create", "create", d, ""))

CallUpdate(t) == \E d \in CallerDocs : Invoke(t, Enter("Update", "update", d, ""))

CallDelete(t) ==
    \E tn \in Tenants, fn \in Names :
        Invoke(t, Enter("Delete", "delete", ZeroDoc, GetKeyFromNames(tn, fn)))

CallDeleteByKey(t) ==
    \E k \in CallerKeys : Invoke(t, Enter("DeleteByKey", "delete", ZeroDoc, k))

CallGetByTopic(t) ==
    \E tn \in Tenants, fn \in Names :
        Invoke(t, Enter("GetByTopic", "get", ZeroDoc, GetKeyFromNames(tn, fn)))

CallGetByKey(t) ==
    \E k \in CallerKeys : Invoke(t, Enter("GetByKey", "get", ZeroDoc, k))

CallLoad(t) == Invoke(t, Enter("Load", "load", ZeroDoc, ""))

(***************************************************************************)
(* Create, lines 172-187.                                                  *)
(***************************************************************************)
\* a Create that does not look the key up
CreateLookupUnchecked(tk, m) ==
    [tk EXCEPT !.pc = "send", !.doc.ID = getKey(tk.doc)]

CreateLookup(tk, m) ==
    LET key == getKey(tk.doc) IN
    IF Has(m, key)
    THEN Return(tk, key, DocAlreadyExisted, <<>>)
    ELSE [tk EXCEPT !.pc = "send", !.doc.ID = key]

Create(t) ==
    /\ task[t].pc = "create"
    /\ task' = [task EXCEPT ![t] = CreateLookup(task[t], topics)]
    /\ UNCHANGED <<topics, log, lastWrite, ncalls, OtherVars>>

(***************************************************************************)
(* Update, lines 239-257.  On a key that is absent it calls Create.  On a  *)
(* present key it copies the cached document into the local v, changes v,  *)
(* drops it, and hands the caller's document to updateCacheAndPulsar as it *)
(* came: functionCfg.ID is not set.                                        *)
(***************************************************************************)
UpdateLookup(tk, m) ==
    LET key == getKey(tk.doc) IN
    IF ~Has(m, key)
    THEN [tk EXCEPT !.pc = "create"]
    ELSE [tk EXCEPT !.pc = "send"]

Update(t) ==
    /\ task[t].pc = "update"
    /\ task' = [task EXCEPT ![t] = UpdateLookup(task[t], topics)]
    /\ UNCHANGED <<topics, log, lastWrite, ncalls, OtherVars>>

(***************************************************************************)
(* updateCacheAndPulsar, lines 189-210.                                    *)
(***************************************************************************)
\* the message of lines 196-199
CacheMessage(functionCfg) == Message(functionCfg.ID, Marshal(functionCfg))

\* line 208
CacheInstall(m, functionCfg) == MapPut(m, functionCfg.ID, functionCfg)

\* producer.Send acknowledges: the message is on the log
Send(t) ==
    /\ task[t].pc = "send"
    /\ log' = Append(log, CacheMessage(task[t].doc))
    /\ task' = [task EXCEPT ![t].pc = "install"]
    /\ UNCHANGED <<topics, lastWrite, ncalls, OtherVars>>

\* producer.Send returns an error: lines 201-203
SendFail(t) ==
    /\ task[t].pc = "send"
    /\ task' = [task EXCEPT ![t] = Return(task[t], "", SendError, <<>>)]
    /\ UNCHANGED <<topics, log, lastWrite, ncalls, OtherVars>>

Install(t) ==
    LET tk == task[t] IN
    /\ tk.pc = "install"
    /\ topics' = CacheInstall(topics, tk.doc)
    /\ task' = [task EXCEPT ![t] = Return(tk, tk.doc.ID, NoError, <<>>)]
    /\ lastWrite' = [lastWrite EXCEPT ![getKey(tk.doc)] = [op |-> tk.op, doc |-> tk.doc]]
    /\ UNCHANGED <<log, ncalls, OtherVars>>

(***************************************************************************)
(* DeleteByKey, lines 269-294.                                             *)
(***************************************************************************)
\* a DeleteByKey that does not look the key up
DeleteLookupUnchecked(tk, m) == [tk EXCEPT !.pc = "dcopy"]

\* line 270
DeleteLookup(tk, m) ==
    IF ~Has(m, tk.key)
    THEN Return(tk, "", DocNotFound, <<>>)
    ELSE [tk EXCEPT !.pc = "dcopy"]

DeleteByKey(t) ==
    /\ task[t].pc = "delete"
    /\ task' = [task EXCEPT ![t] = DeleteLookup(task[t], topics)]
    /\ UNCHANGED <<topics, log, lastWrite, ncalls, OtherVars>>

\* a cache of pointers: marking v marks the cached document
DeleteMarkInPlace(m, key) ==
    IF Has(m, key) THEN [m EXCEPT ![key].FunctionStatus = Deleted] ELSE m

\* lines 274-275 work on a copy: the map holds values, not pointers
DeleteMark(m, key) == m

\* lines 274-275: v := s.topics[hashedTopicKey] is a second read of the
\* map (the zero value if the key has gone since line 270); v is marked
DeleteCopy(t) ==
    /\ task[t].pc = "dcopy"
    /\ task' = [task EXCEPT ![t].pc = "dsend",
                            ![t].v = [MapGet(topics, task[t].key)
                                        EXCEPT !.FunctionStatus = Deleted]]
    /\ topics' = DeleteMark(topics, task[t].key)
    /\ UNCHANGED <<log, lastWrite, ncalls, OtherVars>>

\* the tombstone of lines 283-286
TombstoneMessage(v) == Message(v.ID, Marshal(v))

DeleteSend(t) ==
    /\ task[t].pc = "dsend"
    /\ log' = Append(log, TombstoneMessage(task[t].v))
    /\ task' = [task EXCEPT ![t].pc = "evict"]
    /\ UNCHANGED <<topics, lastWrite, ncalls, OtherVars>>

DeleteSendFail(t) ==
    /\ task[t].pc = "dsend"
    /\ task' = [task EXCEPT ![t] = Return(task[t], "", SendError, <<>>)]
    /\ UNCHANGED <<topics, log, lastWrite, ncalls, OtherVars>>

\* line 292
CacheEvict(m, v) == MapDelete(m, v.ID)

DeleteEvict(t) ==
    LET tk == task[t] IN
    /\ tk.pc = "evict"
    /\ topics' = CacheEvict(topics, tk.v)
    /\ task' = [task EXCEPT ![t] = Return(tk, tk.key, NoError, <<>>)]
    /\ lastWrite' = [lastWrite EXCEPT ![tk.key] = [op |-> "Delete", doc |-> tk.v]]
    /\ UNCHANGED <<log, ncalls, OtherVars>>

(***************************************************************************)
(* GetByKey, lines 222-227, as a function of the cache.                    *)
(***************************************************************************)
GetByKeyErr(m, hashedTopicKey) == IF Has(m, hashedTopicKey) THEN NoError ELSE DocNotFound

GetByKeyDoc(m, hashedTopicKey) == MapGet(m, hashedTopicKey)

GetByKey(t) ==
    LET tk == task[t] IN
    /\ tk.pc = "get"
    /\ task' = [task EXCEPT ![t] =
           Return(tk, "", GetByKeyErr(topics, tk.key), <<GetByKeyDoc(topics, tk.key)>>)]
    /\ UNCHANGED <<topics, log, lastWrite, ncalls, OtherVars>>

(***************************************************************************)
(* Load, lines 230-236: `for _, v := range s.topics` appends &v.  The map  *)
(* is ranged over in an order the runtime picks.  With the loop variable   *)
(* shared by all iterations (Go before 1.22) every pointer appended is the *)
(* same &v and the caller sees the document ranged over last in every      *)
(* element; with a loop variable per iteration (Go 1.22 and later) each    *)
(* element is the copy made in its iteration.                              *)
(***************************************************************************)
RangeOrders(m) ==
    {o \in [1..Cardinality(DOMAIN m) -> DOMAIN m] :
        \A i, j \in DOMAIN o : i # j => o[i] # o[j]}

LoadShared(m, o) == [i \in DOMAIN o |-> m[o[Len(o)]]]

LoadPerIteration(m, o) == [i \in DOMAIN o |-> m[o[i]]]

LoadResults(m) ==
    {LoadShared(m, o) : o \in RangeOrders(m)} \cup
    {LoadPerIteration(m, o) : o \in RangeOrders(m)}

Load(t) ==
    /\ task[t].pc = "load"
    /\ \E r \in LoadResults(topics) :
           task' = [task EXCEPT ![t] = Return(task[t], "", NoError, r)]
    /\ UNCHANGED <<topics, log, lastWrite, ncalls, OtherVars>>

(***************************************************************************)
(* dbListener, lines 86-127.  pc of the goroutine:                         *)
(*   open   before client.CreateReader                                     *)
(*   next   in reader.Next                                                 *)
(*   fold   a document is decoded, before s.topicsLock.Lock()              *)
(*   term   the function has returned; its deferred function is sending    *)
(*          the liveSignal on the unbuffered channel sig                   *)
(* `defer s.topicsLock.Unlock()` of line 118 is inside the for loop: the   *)
(* unlock runs when dbListener returns, not at the end of the iteration.   *)
(***************************************************************************)
CRUDVars == <<task, lastWrite, ncalls, pure>>

\* CreateReader with StartMessageID: pulsar.EarliestMessageID()
EarliestMessageID == 0

ListenerOpen ==
    /\ listener.pc = "open"
    /\ listener' = [listener EXCEPT !.pc = "next", !.pos = EarliestMessageID]
    /\ UNCHANGED <<topics, log, locks, nfail, nforeign, started, CRUDVars>>

\* CreateReader fails: lines 98-101, then the deferred signal
ListenerOpenFail ==
    /\ listener.pc = "open"
    /\ nfail < MaxFail
    /\ listener' = [listener EXCEPT !.pc = "term"]
    /\ nfail' = nfail + 1
    /\ UNCHANGED <<topics, log, locks, nforeign, started, CRUDVars>>

\* lines 107-115: the next message, decoded; an undecodable one is skipped
Received(l, data) ==
    IF UnmarshalOk(data.Payload)
    THEN [l EXCEPT !.pc = "fold", !.pos = l.pos + 1, !.doc = Unmarshal(data.Payload)]
    ELSE [l EXCEPT !.pos = l.pos + 1]

ReaderNext ==
    /\ listener.pc = "next"
    /\ listener.pos < Len(log)
    /\ listener' = Received(listener, log[listener.pos + 1])
    /\ UNCHANGED <<topics, log, locks, nfail, nforeign, started, CRUDVars>>

\* the deferred Unlock calls of this run of dbListener, at its return
DeferredUnlocks(n) == 0

\* reader.Next fails: lines 108-111, then the deferred calls
ReaderNextFail ==
    /\ listener.pc = "next"
    /\ nfail < MaxFail
    /\ listener' = [listener EXCEPT !.pc = "term"]
    /\ locks' = DeferredUnlocks(locks)
    /\ nfail' = nfail + 1
    /\ UNCHANGED <<topics, log, nforeign, started, CRUDVars>>

\* lines 119-124
FoldDoc(m, doc) ==
    IF doc.FunctionStatus # Deleted
    THEN MapPut(m, doc.ID, doc)
    ELSE MapDelete(m, doc.ID)

\* the lock count when an iteration that took the lock goes back to
\* reader.Next: the unlock is deferred, the lock stays taken
AfterFold(n) == n

\* lines 117-125: Lock() blocks while the lock is taken
ListenerFold ==
    /\ listener.pc = "fold"
    /\ locks = 0
    /\ topics' = FoldDoc(topics, listener.doc)
    /\ locks' = AfterFold(locks + 1)
    /\ listener' = [listener EXCEPT !.pc = "next"]
    /\ UNCHANGED <<log, nfail, nforeign, started, CRUDVars>>

(***************************************************************************)
(* The supervisor of Init, lines 71-80: it receives the liveSignal and     *)
(* starts dbListener again.                                                *)
(***************************************************************************)
\* a supervisor that takes the liveSignal and starts nothing
RestartedNever(l) == l

Restarted(l) == [pc |-> "open", pos |-> 0, doc |-> ZeroDoc]

\* a supervisor that does not wait for the liveSignal
SignalAssumed(l) == TRUE

\* line 76: the receive pairs with the send of line 89, the last deferred
\* call of a dbListener that returns
SignalReceived(l) == l.pc = "term"

\* line 77
Supervisor ==
    /\ SignalReceived(listener)
    /\ started <= MaxFail
    /\ listener' = Restarted(listener)
    /\ started' = started + 1
    /\ UNCHANGED <<topics, log, locks, nfail, nforeign, CRUDVars>>

(***************************************************************************)
(* Another producer on the same topic.                                     *)
(***************************************************************************)
ForeignAppend ==
    /\ nforeign < MaxForeign
    /\ \E m \in ForeignMessages : log' = Append(log, m)
    /\ nforeign' = nforeign + 1
    /\ UNCHANGED <<topics, locks, listener, nfail, started, CRUDVars>>

ListenerStep == ListenerOpen \/ ReaderNext \/ ListenerFold

TaskStep(t) ==
    \/ Create(t) \/ Update(t) \/ Send(t) \/ SendFail(t) \/ Install(t)
    \/ DeleteByKey(t) \/ DeleteCopy(t) \/ DeleteSend(t) \/ DeleteSendFail(t) \/ DeleteEvict(t)
    \/ GetByKey(t) \/ Load(t)

Call(t) ==
    \/ CallCreate(t) \/ CallUpdate(t) \/ CallDelete(t) \/ CallDeleteByKey(t)
    \/ CallGetByTopic(t) \/ CallGetByKey(t) \/ CallLoad(t)

Next ==
    \/ \E t \in Tasks : Call(t)
    \/ \E t \in Tasks : TaskStep(t)
    \/ ListenerStep
    \/ ListenerOpenFail
    \/ ReaderNextFail
    \/ Supervisor
    \/ ForeignAppend

Spec == Init /\ [][Next]_vars

(***************************************************************************)
(* The store as the only producer of its topic, with a reader that does    *)
(* not fail: the requests and the listener, no foreign record, no restart. *)
(* Its behaviours are behaviours of Spec.                                  *)
(***************************************************************************)
LocalNext ==
    \/ \E t \in Tasks : Call(t)
    \/ \E t \in Tasks : TaskStep(t)
    \/ ListenerStep

LocalSpec == Init /\ [][LocalNext]_vars

(***************************************************************************)
(* A replica over a log that has stopped growing: the store is started on  *)
(* a topic that holds records already, no request arrives and no producer  *)
(* writes; only the listener and its supervisor run.  The Go scheduler     *)
(* runs every goroutine that can take a step, and the reader hands over    *)
(* every message of the topic: weak fairness of the listener's steps and   *)
(* of the supervisor.  Failures of the reader are not fair: they may stop. *)
(***************************************************************************)
ReplayNames == {"fn1", "fn2"}

ReplayMessages ==
    {Message("", Malformed)} \cup
    {Message(GetKeyFromNames(t, n),
             Marshal(NewDoc(n, GetKeyFromNames(t, n), t, s))) :
        t \in Tenants, n \in ReplayNames, s \in {Activated, Deleted}}

ReplayLogs == UNION {[1..n -> ReplayMessages] : n \in 0..MaxLog}

ReplayInit ==
    /\ topics = EmptyMap
    /\ log \in ReplayLogs
    /\ locks = 0
    /\ listener = [pc |-> "open", pos |-> 0, doc |-> ZeroDoc]
    /\ task = [t \in Tasks |-> IdleTask]
    /\ lastWrite = [k \in CallerKeys |-> NoWrite]
    /\ ncalls = MaxCalls
    /\ nfail = 0
    /\ nforeign = MaxForeign
    /\ started = 1
    /\ pure = NoCall

ReplayNext ==
    \/ ListenerStep
    \/ ListenerOpenFail
    \/ ReaderNextFail
    \/ Supervisor

ReplaySpec ==
    /\ ReplayInit
    /\ [][ReplayNext]_vars
    /\ WF_vars(ListenerStep)
    /\ WF_vars(Supervisor)

(***************************************************************************)
(* Properties of the replay.                                               *)
(***************************************************************************)
\* the positions of the log that hold a decodable record with document ID k
RecordsOf(k) ==
    {i \in 1..Len(log) : UnmarshalOk(log[i].Payload) /\ Unmarshal(log[i].Payload).ID = k}

LastRecordOf(k) ==
    Unmarshal(log[CHOOSE i \in RecordsOf(k) : \A j \in RecordsOf(k) : j <= i].Payload)

LogKeys ==
    {Unmarshal(log[i].Payload).ID : i \in {j \in 1..Len(log) : UnmarshalOk(log[j].Payload)}}

\* the cache holds, for every key, exactly the last record of the log for
\* that key, and no entry when there is none or when it has status Deleted
CacheIsLastWrite ==
    /\ \A k \in DOMAIN topics :
          /\ k \in LogKeys
          /\ LastRecordOf(k).FunctionStatus # Deleted
          /\ topics[k] = LastRecordOf(k)
    /\ \A k \in LogKeys :
          LastRecordOf(k).FunctionStatus # Deleted => k \in DOMAIN topics

\* C2: replay convergence (last write wins).  Over a log that has stopped
\* growing and whose records the reader delivers in order, the cache
\* eventually holds, and goes on holding, exactly the last record of every
\* key, with no entry for a key whose last record has status Deleted,
\* however often the listener is restarted.
C2_ReplayConverges == <>[]CacheIsLastWrite

LoadExcludes(k) ==
    \A r \in LoadResults(topics) : \A i \in DOMAIN r : r[i].ID # k

\* C1: tombstone law.  Once a Delete or DeleteByKey of key k has returned
\* success, and until this process completes a Create or Update for k,
\* GetByKey(k) fails with NotFound and Load holds no document for k, in
\* every reachable state, the listener replaying the log included.
C1_TombstoneLaw ==
    \A k \in CallerKeys :
        lastWrite[k].op = "Delete" =>
            /\ GetByKeyErr(topics, k) = DocNotFound
            /\ LoadExcludes(k)

\* C3: Update on a present key.  When Update's append has succeeded the
\* call returns the derived key K of its document, the cache holds under K
\* a document with the status of the caller's document, and no entry
\* appears under another key.
C3_UpdateReplacesUnderKey ==
    [][\A t \in Tasks :
          (task[t].op = "Update" /\ task[t].pc = "install" /\ task'[t].pc = "idle")
          => LET K == getKey(task[t].doc) IN
             /\ task'[t].err = NoError
             /\ task'[t].rkey = K
             /\ Has(topics', K)
             /\ GetByKeyDoc(topics', K).FunctionStatus = task[t].doc.FunctionStatus
             /\ DOMAIN topics' \subseteq DOMAIN topics \cup {K}]_vars

\* C4: read your writes.  After a Create of a document with key k has
\* returned success, and with no Update or Delete of k completed by this
\* process since, GetByKey(k) succeeds and returns that document, in every
\* interleaving with the listener.
C4_ReadYourWrites ==
    \A k \in Keys :
        lastWrite[k].op = "Create" =>
            /\ GetByKeyErr(topics, k) = NoError
            /\ GetByKeyDoc(topics, k) = lastWrite[k].doc

\* C5: no document in the cache has status Deleted, whatever status the
\* callers supply.
C5_NoDeletedInCache ==
    \A k \in DOMAIN topics : topics[k].FunctionStatus # Deleted

\* C6: the derived key is the record key and the cache key.  Every
\* decodable record of the log has as its key the key derived from the
\* tenant and name of its document, and every cache entry is stored under
\* the key derived from its document.
C6_DerivedKeyEverywhere ==
    /\ \A i \in 1..Len(log) :
          UnmarshalOk(log[i].Payload) => log[i].Key = getKey(Unmarshal(log[i].Payload))
    /\ \A k \in DOMAIN topics : k = getKey(topics[k])

\* C7: write-ahead, then cache.  A step of Create, Update or DeleteByKey
\* at producer.Send that puts nothing on the log returns an error and
\* leaves the cache as it is, and no step of these calls up to and
\* including the Send changes the cache: when the append fails the call
\* has added, replaced, marked and evicted nothing.
C7_WriteAheadThenCache ==
    [][\A t \in Tasks :
          /\ (task[t].pc \in {"send", "dsend"} /\ task'[t] # task[t] /\ log' = log)
             => /\ task'[t].pc = "idle"
                /\ task'[t].err = SendError
                /\ task'[t].rkey = ""
                /\ topics' = topics
          /\ (task[t].pc \in {"create", "update", "delete", "dcopy", "send", "dsend"}
              /\ task'[t] # task[t])
             => topics' = topics]_vars

\* a Delete whose append failed has returned, and the cache still holds a
\* document that is not marked Deleted
C7_Witness ==
    \E t \in Tasks :
        /\ task[t].pc = "idle"
        /\ task[t].op \in {"Delete", "DeleteByKey"}
        /\ task[t].err = SendError
        /\ \E k \in DOMAIN topics : topics[k].FunctionStatus # Deleted

\* C8: Create on a key that is in the cache fails with AlreadyExists,
\* appends nothing and leaves the cache unchanged.
C8_CreateExisting ==
    [][\A t \in Tasks :
          (task[t].pc = "create" /\ Has(topics, getKey(task[t].doc))
           /\ task'[t] # task[t])
          => /\ task'[t].pc = "idle"
             /\ task'[t].err = DocAlreadyExisted
             /\ log' = log
             /\ topics' = topics]_vars

\* a Create has returned AlreadyExists
C8_Witness ==
    \E t \in Tasks :
        /\ task[t].pc = "idle"
        /\ task[t].op = "Create"
        /\ task[t].err = DocAlreadyExisted
        /\ task[t].rkey \in DOMAIN topics

\* C9: Delete and DeleteByKey on a key that is not in the cache fail with
\* NotFound, append nothing and leave the cache unchanged; GetByKey and
\* GetByTopic on such a key fail with NotFound.
C9_AbsentKeyNotFound ==
    [][\A t \in Tasks :
          /\ (task[t].pc = "delete" /\ ~Has(topics, task[t].key) /\ task'[t] # task[t])
             => /\ task'[t].pc = "idle"
                /\ task'[t].err = DocNotFound
                /\ log' = log
                /\ topics' = topics
          /\ (task[t].pc = "get" /\ ~Has(topics, task[t].key) /\ task'[t] # task[t])
             => /\ task'[t].pc = "idle"
                /\ task'[t].err = DocNotFound
                /\ log' = log
                /\ topics' = topics]_vars

\* a delete and a read have both returned NotFound
C9_Witness ==
    \E t, u \in Tasks :
        /\ task[t].pc = "idle"
        /\ task[t].op \in {"Delete", "DeleteByKey"}
        /\ task[t].err = DocNotFound
        /\ task[u].pc = "idle"
        /\ task[u].op \in {"GetByKey", "GetByTopic"}
        /\ task[u].err = DocNotFound

(***************************************************************************)
(* Properties of the listener, its lock and its supervisor.                *)
(***************************************************************************)
\* the listener has just passed an undecodable record
SkippedMalformed ==
    /\ listener.pc = "next"
    /\ listener.pos >= 1
    /\ listener.pos <= Len(log)
    /\ ~UnmarshalOk(log[listener.pos].Payload)

\* the listener has read and folded every record of the log
ReplayedAll == listener.pc = "next" /\ listener.pos = Len(log)

\* C11: a record whose payload does not decode is skipped.  The step that
\* reads it leaves the cache unchanged and does not terminate the listener,
\* and the listener goes on to read and fold the records that follow it.
C11_MalformedSkipped ==
    /\ [][(listener.pc = "next" /\ listener' # listener /\ listener'.pc # "term"
           /\ ~UnmarshalOk(log[listener.pos + 1].Payload))
          => (topics' = topics /\ listener'.pc = "next"
              /\ listener'.pos = listener.pos + 1)]_vars
    /\ SkippedMalformed ~> ReplayedAll

\* r lists the documents of the cache m, one element per key
IsSnapshot(r, m) ==
    /\ Len(r) = Cardinality(DOMAIN m)
    /\ \E o \in RangeOrders(m) : \A i \in DOMAIN o : r[i] = m[o[i]]

\* C12: Load returns a snapshot of the cache: one element per cached key,
\* each equal to the document cached under that key, and it changes
\* neither the cache nor the log.
C12_LoadSnapshot ==
    [][\A t \in Tasks :
          (task[t].pc = "load" /\ task'[t] # task[t])
          => /\ task'[t].pc = "idle"
             /\ task'[t].err = NoError
             /\ IsSnapshot(task'[t].rdocs, topics)
             /\ topics' = topics
             /\ log' = log]_vars


(***************************************************************************)
(* Package model: key derivation and validation.  These are pure           *)
(* functions; ModelSpec applies them to inputs drawn from small sets and   *)
(* records the inputs and the result in the variable pure.                 *)
(***************************************************************************)
MaxWebhooks == 2    \* webhooks of one topic

\* strings.ToLower on the sampled strings
ToLower(str) ==
    CASE str = "Exclusive" -> "exclusive"
      [] str = "KeyShared" -> "keyshared"
      [] str = "Earliest" -> "earliest"
      [] OTHER -> str

\* strings.TrimSpace on the sampled strings
TrimSpace(str) ==
    CASE str = " " -> ""
      [] str = " s1" -> "s1"
      [] OTHER -> str

\* url.Parse succeeds with a scheme and a host
IsURL(str) == str \in {"http://h1/a", "http://h2/b"}

ErrNotURL == "not a URL"
ErrSubscriptionMissing == "subscription name is missing"
ErrUnsupportedSubscriptionType == "unsupported subscription type"
ErrExclusiveShared == "exclusive subscription cannot be shared between multiple webhooks"
ErrInvalidInitialPosition == "invalid subscription initial position"

GetInitialPosition(pos) ==
    CASE ToLower(pos) \in {"latest", ""} -> [val |-> "SubscriptionPositionLatest", err |-> NoError]
      [] ToLower(pos) = "earliest" -> [val |-> "SubscriptionPositionEarliest", err |-> NoError]
      [] OTHER -> [val |-> "-1", err |-> ErrInvalidInitialPosition]

GetSubscriptionType(subType) ==
    CASE ToLower(subType) \in {"exclusive", ""} -> [val |-> "Exclusive", err |-> NoError]
      [] ToLower(subType) = "shared" -> [val |-> "Shared", err |-> NoError]
      [] ToLower(subType) = "keyshared" -> [val |-> "KeyShared", err |-> NoError]
      [] ToLower(subType) = "failover" -> [val |-> "Failover", err |-> NoError]
      [] OTHER -> [val |-> "-1", err |-> ErrUnsupportedSubscriptionType]

\* exclusiveSubs[wh.Subscription] = true is never executed
MarkExclusiveForgotten(exclusiveSubs, wh) == exclusiveSubs

\* exclusiveSubs[wh.Subscription] = true
MarkExclusive(exclusiveSubs, wh) == exclusiveSubs \cup {wh.Subscription}

\* the loop of ValidateWebhookConfig from the i-th webhook on; exclusiveSubs
\* is the set of the names the map holds
RECURSIVE ValidateWebhooksFrom(_, _, _)
ValidateWebhooksFrom(whs, i, exclusiveSubs) ==
    IF i > Len(whs) THEN NoError
    ELSE LET wh == whs[i]
             subType == GetSubscriptionType(wh.SubscriptionType)
             pos == GetInitialPosition(wh.InitialPosition)
         IN  IF ~IsURL(wh.URL) THEN ErrNotURL
             ELSE IF TrimSpace(wh.Subscription) = "" THEN ErrSubscriptionMissing
             ELSE IF subType.err # NoError THEN subType.err
             ELSE IF subType.val = "Exclusive" /\ wh.Subscription \in exclusiveSubs
                  THEN ErrExclusiveShared
             ELSE IF pos.err # NoError THEN pos.err
             ELSE ValidateWebhooksFrom(whs, i + 1,
                      IF subType.val = "Exclusive"
                      THEN MarkExclusive(exclusiveSubs, wh)
                      ELSE exclusiveSubs)

ValidateWebhookConfig(whs) == ValidateWebhooksFrom(whs, 1, {})

\* the key is returned whatever the webhooks are
ValidateTopicConfigUnchecked(top) ==
    [key |-> GetKeyFromNames(top.TopicFullName, top.PulsarURL), err |-> NoError]

ValidateTopicConfig(top) ==
    IF ValidateWebhookConfig(top.Webhooks) # NoError
    THEN [key |-> "", err |-> ValidateWebhookConfig(top.Webhooks)]
    ELSE [key |-> GetKeyFromNames(top.TopicFullName, top.PulsarURL), err |-> NoError]

\* sampled inputs
KeyTenants == {"a", "ab"}
KeyNames == {"bc", "c"}
KeyPairs == KeyTenants \X KeyNames

WebhookConfig(url, sub, subType, pos) ==
    [URL |-> url, Subscription |-> sub, SubscriptionType |-> subType, InitialPosition |-> pos]

WebhookConfigs ==
    {WebhookConfig("http://h1/a", sub, subType, "") :
        sub \in {"s1", "s2"},
        subType \in {"", "Exclusive", "shared", "KeyShared", "failover"}}
    \cup {WebhookConfig("http://h2/b", " s1", "exclusive", "Earliest"),
          WebhookConfig("http://h2/b", "s1", "exclusive", "latest"),
          WebhookConfig("h1", "s1", "", ""),
          WebhookConfig("http://h1/a", " ", "", ""),
          WebhookConfig("http://h1/a", "s1", "bogus", ""),
          WebhookConfig("http://h1/a", "s1", "", "middle")}

WebhookLists == UNION {[1..n -> WebhookConfigs] : n \in 0..MaxWebhooks}

TopicWebhookLists ==
    {whs \in WebhookLists : \A i \in DOMAIN whs : whs[i].Subscription = "s1"}

TopicConfigs ==
    [TopicFullName : KeyTenants, PulsarURL : KeyNames, Tenant : {"a", "t1"},
     Webhooks : TopicWebhookLists]

ModelVars == <<topics, log, locks, listener, task, lastWrite, ncalls, nfail, nforeign, started>>

ApplyGetKeyFromNames ==
    /\ pure = NoCall
    /\ \E p \in KeyPairs, q \in KeyPairs :
          pure' = [op |-> "GetKeyFromNames", in |-> <<p, q>>,
                   out |-> <<GetKeyFromNames(p[1], p[2]), GetKeyFromNames(q[1], q[2])>>]
    /\ UNCHANGED ModelVars

ApplyValidateWebhookConfig ==
    /\ pure = NoCall
    /\ \E whs \in WebhookLists :
          pure' = [op |-> "ValidateWebhookConfig", in |-> whs,
                   out |-> ValidateWebhookConfig(whs)]
    /\ UNCHANGED ModelVars

ApplyValidateTopicConfig ==
    /\ pure = NoCall
    /\ \E top \in TopicConfigs :
          pure' = [op |-> "ValidateTopicConfig", in |-> top,
                   out |-> ValidateTopicConfig(top)]
    /\ UNCHANGED ModelVars

ModelNext ==
    \/ ApplyGetKeyFromNames
    \/ ApplyValidateWebhookConfig
    \/ ApplyValidateTopicConfig

ModelSpec == Init /\ [][ModelNext]_vars

\* C13: the derived key is deterministic and injective on (tenant, name)
\* pairs: equal pairs give equal keys and distinct pairs give distinct keys.
C13_KeyInjective ==
    pure.op = "GetKeyFromNames"
    => /\ (pure.in[1] = pure.in[2] => pure.out[1] = pure.out[2])
       /\ (pure.in[1] # pure.in[2] => pure.out[1] # pure.out[2])


PassesWebhookChecks(wh) ==
    /\ IsURL(wh.URL)
    /\ TrimSpace(wh.Subscription) # ""
    /\ ToLower(wh.SubscriptionType) \in {"exclusive", "", "shared", "keyshared", "failover"}
    /\ ToLower(wh.InitialPosition) \in {"latest", "", "earliest"}

ResolvesExclusive(wh) == ToLower(wh.SubscriptionType) \in {"exclusive", ""}

DuplicateExclusive(whs) ==
    \E i, j \in DOMAIN whs :
        /\ i < j
        /\ whs[i].Subscription = whs[j].Subscription
        /\ ResolvesExclusive(whs[i])
        /\ ResolvesExclusive(whs[j])

\* C14: for a webhook list whose entries each pass the per-webhook checks,
\* ValidateWebhookConfig fails with the exclusive-subscription error exactly
\* when two entries have the same subscription name and both resolve to
\* exclusive; every other such list passes.
C14_DuplicateExclusive ==
    (pure.op = "ValidateWebhookConfig" /\ \A i \in DOMAIN pure.in : PassesWebhookChecks(pure.in[i]))
    => /\ (pure.out = ErrExclusiveShared <=> DuplicateExclusive(pure.in))
       /\ (pure.out = NoError <=> ~DuplicateExclusive(pure.in))

C14_Witness ==
    /\ pure.op = "ValidateWebhookConfig"
    /\ Len(pure.in) = 2
    /\ \A i \in DOMAIN pure.in : PassesWebhookChecks(pure.in[i])
    /\ pure.in[1].SubscriptionType = "Exclusive"
    /\ pure.in[2].SubscriptionType = ""
    /\ pure.in[1].Subscription = pure.in[2].Subscription
    /\ pure.out = ErrExclusiveShared

\* C15 as stated: on success the key returned is the one derived from the
\* topic's (tenant, topicFullName); on failure the error and no key.
C15_KeyOfTenantAndTopic ==
    pure.op = "ValidateTopicConfig"
    => IF ValidateWebhookConfig(pure.in.Webhooks) = NoError
       THEN pure.out = [key |-> GetKeyFromNames(pure.in.Tenant, pure.in.TopicFullName),
                        err |-> NoError]
       ELSE pure.out = [key |-> "", err |-> ValidateWebhookConfig(pure.in.Webhooks)]

\* C15 amended: on success the key returned is the one derived from the
\* topic's (topicFullName, pulsarURL), in that order; when the webhook
\* validation fails, its error is returned and the key is empty.
C15_KeyOfTopicAndURL ==
    pure.op = "ValidateTopicConfig"
    => /\ (\A i \in DOMAIN pure.in.Webhooks : PassesWebhookChecks(pure.in.Webhooks[i]))
          /\ ~DuplicateExclusive(pure.in.Webhooks)
          => pure.out = [key |-> GetKeyFromNames(pure.in.TopicFullName, pure.in.PulsarURL),
                         err |-> NoError]
       /\ (\E i \in DOMAIN pure.in.Webhooks : ~PassesWebhookChecks(pure.in.Webhooks[i]))
          \/ DuplicateExclusive(pure.in.Webhooks)
          => /\ pure.out.key = ""
             /\ pure.out.err = ValidateWebhookConfig(pure.in.Webhooks)
             /\ pure.out.err # NoError

C15_Witness ==
    /\ pure.op = "ValidateTopicConfig"
    /\ Len(pure.in.Webhooks) = 2
    /\ pure.out.err = NoError
    /\ pure.in.Tenant # pure.in.TopicFullName
    /\ pure.out.key = GetKeyFromNames(pure.in.TopicFullName, pure.in.PulsarURL)
    /\ pure.out.key # GetKeyFromNames(pure.in.Tenant, pure.in.TopicFullName)


\* the steps of a request task that read or write the cache
CacheAccess == {"create", "update", "install", "delete", "dcopy", "evict", "get", "load"}

\* C16: every access of a request task to the cache is made under the
\* cache's lock, so no request task reads or writes the cache while the
\* replay loop holds the lock for its write.
C16_AccessUnderLock ==
    [][(\E t \in Tasks : task[t].pc \in CacheAccess /\ task'[t] # task[t])
       => locks = 0]_vars

\* C17: the lock taken to fold one record is released before the next
\* record is read: a listener waiting on the reader does not hold the
\* lock, and a listener about to take the lock does not hold it already.
C17_PerRecordLock == listener.pc \in {"next", "fold"} => locks = 0

\* C18: of the concurrent Creates for one key that is absent at most one
\* passes the existence check, appends its record and returns success.
C18_CreateAtomic ==
    \A t1, t2 \in Tasks :
        (/\ t1 # t2
         /\ task[t1].op = "Create" /\ task[t1].pc = "install"
         /\ task[t2].op = "Create" /\ task[t2].pc = "install")
        => task[t1].doc.ID # task[t2].doc.ID


\* C19: at most one listener is live at any time; the supervisor starts a
\* listener only when the previous one has terminated and signalled, and
\* every termination is followed by exactly one start.
C19_OneListener ==
    /\ [](started - nfail \in {0, 1})
    /\ [](listener.pc = "term" <=> started = nfail)
    /\ [][started' # started
          => /\ listener.pc = "term"
             /\ started' = started + 1
             /\ listener'.pc = "open"]_vars

\* the listener started after the last failure the bound allows is the
\* only one live
C19_Witness ==
    /\ nfail = MaxFail
    /\ started = MaxFail + 1
    /\ listener.pc = "next"


\* C20: every cache entry's ID is the key it is stored under, and the
\* eviction of DeleteByKey(k) removes the entry stored under k and no other.
C20_KeyIsID ==
    /\ [](\A k \in DOMAIN topics : topics[k].ID = k)
    /\ [][\A t \in Tasks :
            (task[t].pc = "evict" /\ task'[t] # task[t])
            => topics' = MapDelete(topics, task[t].key)]_vars

====
